---------------------------- MODULE Spec2Model ----------------------------
(***************************************************************************)
(* Model of Sources/HieroProtobufs/sync_status_codes.py, the tool that     *)
(* keeps Status.swift in step with the ResponseCodeEnum of                 *)
(* response_code.proto.                                                    *)
(*                                                                         *)
(* Text is modelled as TLA+ strings, character by character: Len, SubSeq   *)
(* and \o are the only primitives, and every str/re operation of the       *)
(* script is an operator built from them.                                  *)
(***************************************************************************)
EXTENDS Integers, Sequences, FiniteSets, TLC

VARIABLES
    \* proto_to_swift_case on one identifier
    segments,        \* the segments the identifier was assembled from
    proto_name,      \* the identifier handed to proto_to_swift_case
    swift_name,      \* what it returned
    case_pc,         \* "call" | "returned"
    \* parse_proto_file on one proto text
    proto_text,      \* content of response_code.proto
    body_lines,      \* lines of the enum block not yet processed
    current_comment, \* the pending-comment accumulator (list of str)
    codes,           \* StatusCode records emitted so far
    accepted,        \* history: per emitted code, the value line and the
                     \* accumulator it was parsed with
    parse_error,     \* "Could not find ResponseCodeEnum" was printed
    last_line,       \* history: how the last line processed was classified
    parse_pc,        \* "start" | "loop" | "done"
    \* the diff engine
    proto_codes,     \* List[StatusCode], in proto-parse order
    swift_codes,     \* Dict[int, str]: code -> Swift name, from init(rawValue:)
    swift_comments,  \* Dict[int, SwiftStatusCode], from the case declarations
    missing,         \* what find_missing_codes returned
    comment_updates, \* what find_comment_updates returned
    diff_pc,         \* "call" | "missing" | "updates"
    \* one invocation of the script after another (main)
    proto_file,      \* response_code.proto on disk: [exists, text]
    swift_file,      \* Status.swift on disk
    backup_file,     \* Status.swift.bak on disk
    dry_run,         \* args.dry_run of the running invocation
    pc,              \* position of the running invocation
    updated_text,    \* the local variable content of update_swift_file
    warnings,        \* sections for which a missing insertion point was reported
    success,         \* what update_swift_file returned: "none" | "true" | "false"
    exit_code,       \* the process exit status, -1 while it runs
    run,             \* number of the running invocation
    swift_file0,     \* history: Status.swift when the invocation started
    absent,          \* history: the anchors Status.swift was written without
    wrote_before,    \* history: the previous invocation wrote the file and returned True
    overwrite_failed, \* history: the open/write of lines 444-445 raised
    failures,        \* history: file operations of this invocation that raised
    restored,        \* history: the absent anchors were put back by hand
    \* one call of a text-editing function on its own
    call_args,       \* the arguments of the call
    call_result,     \* what it returned
    call_pc          \* "call" | "returned"

caseVars == <<segments, proto_name, swift_name, case_pc>>

parseVars == <<proto_text, body_lines, current_comment, codes, accepted,
               parse_error, last_line, parse_pc>>

diffVars == <<proto_codes, swift_codes, swift_comments, missing, comment_updates,
              diff_pc>>

mainVars == <<proto_file, swift_file, backup_file, dry_run, pc, updated_text, warnings,
              success, exit_code, run, swift_file0, absent, wrote_before,
              overwrite_failed, failures, restored>>

callVars == <<call_args, call_result, call_pc>>

vars == <<caseVars, parseVars, diffVars, mainVars, callVars>>

-----------------------------------------------------------------------------
(* Bounds of the model *)

\* Longest identifier, in '_'-separated segments, handed to the converter.
MaxSegments == 3

\* Most lines inside the enum block of a proto text.
MaxProtoLines == 4

\* Longest list of proto codes handed to the diff engine on its own.
MaxDiffCodes == 3

\* Most invocations of the script, one after another on the same files.
MaxRuns == 2

\* Most pieces a text handed to _insert_before_marker is assembled from.
MaxPieces == 3

\* Most case declarations in a text handed to _apply_comment_updates.
MaxDecls == 2

-----------------------------------------------------------------------------
(* Each specification runs one part of the script; the variables of the    *)
(* other parts stay at these values.                                       *)

IdleCase ==
    /\ segments = <<>>
    /\ proto_name = ""
    /\ swift_name = ""
    /\ case_pc = "idle"

IdleParse ==
    /\ proto_text = ""
    /\ body_lines = <<>>
    /\ current_comment = <<>>
    /\ codes = <<>>
    /\ accepted = <<>>
    /\ parse_error = FALSE
    /\ last_line = "none"
    /\ parse_pc = "idle"

\* An empty dict.
EmptyDict == [k \in {} |-> "none"]

IdleDiff ==
    /\ proto_codes = <<>>
    /\ swift_codes = EmptyDict
    /\ swift_comments = EmptyDict
    /\ missing = <<>>
    /\ comment_updates = <<>>
    /\ diff_pc = "idle"

\* A path with no file at it, and a file with this text.
NoFile == [exists |-> FALSE, text |-> ""]

FileOf(text) == [exists |-> TRUE, text |-> text]

IdleCall ==
    /\ call_args = <<>>
    /\ call_result = <<>>
    /\ call_pc = "idle"

IdleMain ==
    /\ proto_file = NoFile
    /\ swift_file = NoFile
    /\ backup_file = NoFile
    /\ dry_run = FALSE
    /\ pc = "idle"
    /\ updated_text = ""
    /\ warnings = <<>>
    /\ success = "none"
    /\ exit_code = -1
    /\ run = 0
    /\ swift_file0 = NoFile
    /\ absent = {}
    /\ wrote_before = FALSE
    /\ overwrite_failed = FALSE
    /\ failures = 0
    /\ restored = FALSE

-----------------------------------------------------------------------------
(* Python str primitives *)

Char(s, i) == SubSeq(s, i, i)

CharsOf(s) == {Char(s, i) : i \in 1..Len(s)}

Uppers == "ABCDEFGHIJKLMNOPQRSTUVWXYZ"

Lowers == "abcdefghijklmnopqrstuvwxyz"

Digits == "0123456789"

UpperSet == CharsOf(Uppers)

LowerSet == CharsOf(Lowers)

DigitSet == CharsOf(Digits)

\* regex \w (ASCII)
WordChars == UpperSet \cup LowerSet \cup DigitSet \cup {"_"}

\* regex \s, and what str.strip() removes
Whitespace == {" ", "\t", "\n", "\r", "\f"}

LetterIndex(c, alphabet) == CHOOSE i \in 1..Len(alphabet) : Char(alphabet, i) = c

LowerChar(c) == IF c \in UpperSet THEN Char(Lowers, LetterIndex(c, Uppers)) ELSE c

UpperChar(c) == IF c \in LowerSet THEN Char(Uppers, LetterIndex(c, Lowers)) ELSE c

RECURSIVE StrLower(_)
\* str.lower()
StrLower(s) ==
    IF s = "" THEN ""
    ELSE LowerChar(Char(s, 1)) \o StrLower(SubSeq(s, 2, Len(s)))

\* str.capitalize(): first character upper-cased, the rest lower-cased
StrCapitalize(s) ==
    IF s = "" THEN ""
    ELSE UpperChar(Char(s, 1)) \o StrLower(SubSeq(s, 2, Len(s)))

\* str.startswith(prefix)
StartsWith(s, prefix) ==
    /\ Len(prefix) <= Len(s)
    /\ SubSeq(s, 1, Len(prefix)) = prefix

\* The positions at which needle occurs in s.
Occurrences(s, needle) ==
    {i \in 1..(Len(s) - Len(needle) + 1) : SubSeq(s, i, i + Len(needle) - 1) = needle}

\* needle in s
Contains(s, needle) == Occurrences(s, needle) # {}

\* The smallest element of a non-empty set of positions.
MinOf(positions) == CHOOSE i \in positions : \A j \in positions : i <= j

\* str.find(needle) + 1: the first position of needle in s, 0 when absent
StrFind(s, needle) ==
    LET hits == Occurrences(s, needle)
    IN  IF hits = {} THEN 0 ELSE MinOf(hits)

RECURSIVE PiecesFrom(_, _, _, _)
\* The pieces of s from position start on, cut at the occurrences hits of
\* a separator of length n taken left to right without overlap.
PiecesFrom(s, hits, n, start) ==
    LET later == {h \in hits : h >= start}
    IN  IF later = {} THEN <<SubSeq(s, start, Len(s))>>
        ELSE <<SubSeq(s, start, MinOf(later) - 1)>>
                \o PiecesFrom(s, hits, n, MinOf(later) + n)

\* str.split(sep): always one more piece than there are separators
StrSplit(s, sep) == PiecesFrom(s, Occurrences(s, sep), Len(sep), 1)

RECURSIVE StrJoin(_, _)
\* sep.join(parts)
StrJoin(parts, sep) ==
    IF parts = <<>> THEN ""
    ELSE IF Len(parts) = 1 THEN parts[1]
    ELSE parts[1] \o sep \o StrJoin(Tail(parts), sep)

\* str.replace(old, new): every non-overlapping occurrence, left to right
StrReplace(s, old, new) == StrJoin(StrSplit(s, old), new)

RECURSIVE LStripChars(_, _)
\* str.lstrip(chars)
LStripChars(s, chars) ==
    IF s # "" /\ Char(s, 1) \in chars
    THEN LStripChars(SubSeq(s, 2, Len(s)), chars)
    ELSE s

RECURSIVE RStripChars(_, _)
\* str.rstrip(chars)
RStripChars(s, chars) ==
    IF s # "" /\ Char(s, Len(s)) \in chars
    THEN RStripChars(SubSeq(s, 1, Len(s) - 1), chars)
    ELSE s

\* str.strip()
StrStrip(s) == RStripChars(LStripChars(s, Whitespace), Whitespace)

-----------------------------------------------------------------------------
(* proto_to_swift_case *)

ACRONYM_MAPPINGS ==
    [ID   |-> "ID",
     IPV4 |-> "Ipv4",
     FQDN |-> "Fqdn",
     NFT  |-> "Nft",
     KYC  |-> "Kyc",
     GRPC |-> "Grpc",
     LCM  |-> "Lcm"]

\* The mutant: the acronym table is never consulted.
RenderPartNoAcronyms(part) == StrCapitalize(part)

\* ACRONYM_MAPPINGS.get(part, part.capitalize())
RenderPart(part) ==
    IF part \in DOMAIN ACRONYM_MAPPINGS THEN ACRONYM_MAPPINGS[part]
    ELSE StrCapitalize(part)

RECURSIVE RenderParts(_)
\* the loop over parts[1:], joined with ''
RenderParts(parts) ==
    IF parts = <<>> THEN ""
    ELSE RenderPart(parts[1]) \o RenderParts(Tail(parts))

proto_to_swift_case(name) ==
    IF name = "OK" THEN "ok"
    ELSE LET parts == StrSplit(name, "_")
         IN  StrLower(parts[1]) \o RenderParts(Tail(parts))

-----------------------------------------------------------------------------
(* The proto parser: _extract_block_comment_text, _process_comment_line,   *)
(* _parse_enum_value, parse_proto_file                                     *)

RECURSIVE SkipChars(_, _, _)
\* Greedy X* from position i: the first position at or after i whose
\* character is not in chars (Len(s) + 1 at the end of s).
SkipChars(s, i, chars) ==
    IF i <= Len(s) /\ Char(s, i) \in chars THEN SkipChars(s, i + 1, chars) ELSE i

\* s[i-1:].startswith(lit), for a 1-based position i
LitAt(s, i, lit) ==
    /\ i >= 1
    /\ i + Len(lit) - 1 <= Len(s)
    /\ SubSeq(s, i, i + Len(lit) - 1) = lit

RECURSIVE ParseInt(_)
\* int(digits)
ParseInt(digits) ==
    IF digits = "" THEN 0
    ELSE ParseInt(SubSeq(digits, 1, Len(digits) - 1)) * 10
            + (LetterIndex(Char(digits, Len(digits)), Digits) - 1)

RECURSIVE SubBlockMarkers(_, _)
\* re.sub(r'/\*\*?\s*|\s*\*/', '', s) scanning from position i
SubBlockMarkers(s, i) ==
    IF i > Len(s) THEN ""
    ELSE IF LitAt(s, i, "/*")
         THEN LET j == IF LitAt(s, i + 2, "*") THEN i + 3 ELSE i + 2
              IN  SubBlockMarkers(s, SkipChars(s, j, Whitespace))
    ELSE LET k == SkipChars(s, i, Whitespace)
         IN  IF LitAt(s, k, "*/") THEN SubBlockMarkers(s, k + 2)
             ELSE Char(s, i) \o SubBlockMarkers(s, i + 1)

_extract_block_comment_text(line) == StrStrip(SubBlockMarkers(line, 1))

\* _process_comment_line's return value
IsCommentLine(line) ==
    StartsWith(line, "/*") \/ StartsWith(line, "*") \/ StartsWith(line, "//")

\* current_comment after _process_comment_line(line, current_comment)
CommentAfter(line, pending) ==
    IF StartsWith(line, "/*")
    THEN LET comment_text == IF Contains(line, "*/")
                             THEN _extract_block_comment_text(line) ELSE ""
         IN  IF comment_text # "" THEN <<comment_text>> ELSE <<>>
    ELSE IF StartsWith(line, "*")
    THEN LET comment_text == RStripChars(LStripChars(line, {"*", " "}), Whitespace)
         IN  IF comment_text # "" /\ comment_text # "/"
             THEN Append(pending, comment_text) ELSE pending
    ELSE IF StartsWith(line, "//")
    THEN Append(pending, StrStrip(LStripChars(line, {"/", " "})))
    ELSE pending

NoMatch == [matched |-> FALSE, name |-> "", digits |-> "", annotated |-> FALSE,
            inline |-> ""]

\* (?:\[deprecated\s*=\s*true\])? at position i: the position after it,
\* or i itself when the group does not match there
AfterAnnotation(s, i) ==
    IF ~LitAt(s, i, "[deprecated") THEN i
    ELSE LET a == SkipChars(s, i + Len("[deprecated"), Whitespace)
         IN  IF ~LitAt(s, a, "=") THEN i
             ELSE LET b == SkipChars(s, a + 1, Whitespace)
                  IN  IF LitAt(s, b, "true]") THEN b + Len("true]") ELSE i

\* re.match(enum_pattern, line) with
\* ^(\w+)\s*=\s*(\d+)\s*(?:\[deprecated\s*=\s*true\])?\s*;?\s*(?://\s*(.*))?$
\* inline is group 3, "" when the group took no part
MatchEnumValue(line) ==
    LET i1 == SkipChars(line, 1, WordChars)
        i2 == SkipChars(line, i1, Whitespace)
        i3 == SkipChars(line, i2 + 1, Whitespace)
        i4 == SkipChars(line, i3, DigitSet)
        i5 == SkipChars(line, i4, Whitespace)
        i6 == AfterAnnotation(line, i5)
        i7 == SkipChars(line, i6, Whitespace)
        i8 == IF LitAt(line, i7, ";") THEN i7 + 1 ELSE i7
        i9 == SkipChars(line, i8, Whitespace)
        i10 == SkipChars(line, i9 + 2, Whitespace)
    IN  IF i1 = 1 \/ ~LitAt(line, i2, "=") \/ i4 = i3 THEN NoMatch
        ELSE IF LitAt(line, i9, "//")
        THEN [matched |-> TRUE, name |-> SubSeq(line, 1, i1 - 1),
              digits |-> SubSeq(line, i3, i4 - 1), annotated |-> i6 > i5,
              inline |-> SubSeq(line, i10, Len(line))]
        ELSE IF i9 = Len(line) + 1
        THEN [matched |-> TRUE, name |-> SubSeq(line, 1, i1 - 1),
              digits |-> SubSeq(line, i3, i4 - 1), annotated |-> i6 > i5,
              inline |-> ""]
        ELSE NoMatch

\* deprecated = 'deprecated' in line.lower()
DeprecatedFlag(line) == Contains(StrLower(line), "deprecated")

\* The mutant: the inline comment is put before the accumulated comment.
CombineCommentInlineFirst(pending, inline) ==
    LET comment == StrJoin(pending, " ")
    IN  StrStrip(IF inline # ""
                 THEN (IF comment # "" THEN StrStrip(inline \o " " \o comment)
                       ELSE inline)
                 ELSE comment)

\* comment = ' '.join(current_comment), the inline comment appended, stripped
CombineComment(pending, inline) ==
    LET comment == StrJoin(pending, " ")
    IN  StrStrip(IF inline # ""
                 THEN (IF comment # "" THEN StrStrip(comment \o " " \o inline)
                       ELSE inline)
                 ELSE comment)

\* The StatusCode _parse_enum_value returns for a line the pattern matches
_parse_enum_value(line, pending) ==
    LET m == MatchEnumValue(line)
    IN  [name |-> m.name, code |-> ParseInt(m.digits),
         comment |-> CombineComment(pending, m.inline),
         deprecated |-> DeprecatedFlag(line)]

\* re.search(r'enum\s+ResponseCodeEnum\s*\{(.*?)\}', content, re.DOTALL):
\* for a start position i of "enum", the span <<first, last>> of group 1,
\* or <<0, 0>> when the pattern does not match at i
EnumBodyAt(content, i) ==
    LET a == SkipChars(content, i + Len("enum"), Whitespace)
        b == a + Len("ResponseCodeEnum")
        c == SkipChars(content, b, Whitespace)
        closing == {j \in (c + 1)..Len(content) : Char(content, j) = "}"}
    IN  IF /\ a > i + Len("enum")
           /\ LitAt(content, a, "ResponseCodeEnum")
           /\ LitAt(content, c, "{")
           /\ closing # {}
        THEN <<c + 1, (CHOOSE j \in closing : \A k \in closing : j <= k) - 1>>
        ELSE <<0, 0>>

\* The start positions at which the enum pattern matches.
EnumMatches(content) ==
    {i \in Occurrences(content, "enum") : EnumBodyAt(content, i) # <<0, 0>>}

\* enum_match.group(1) of the leftmost match
EnumBody(content) ==
    LET first == CHOOSE i \in EnumMatches(content) :
                     \A j \in EnumMatches(content) : i <= j
        span == EnumBodyAt(content, first)
    IN  SubSeq(content, span[1], span[2])

\* line 164: current_comment.clear()
AccumulatorAfterValue(pending) == <<>>

RECURSIVE ParseLines(_, _, _)
\* The loop of lines 151-164 run to its end: the codes list after the
\* given lines, from the accumulator pending and the codes so far.
ParseLines(lines, pending, sofar) ==
    IF lines = <<>> THEN sofar
    ELSE LET line == StrStrip(Head(lines))
         IN  IF line = "" THEN ParseLines(Tail(lines), <<>>, sofar)
             ELSE IF IsCommentLine(line)
             THEN ParseLines(Tail(lines), CommentAfter(line, pending), sofar)
             ELSE IF MatchEnumValue(line).matched
             THEN ParseLines(Tail(lines), AccumulatorAfterValue(pending),
                             Append(sofar, _parse_enum_value(line, pending)))
             ELSE ParseLines(Tail(lines), pending, sofar)

\* The mutant: without the enum block, the lines of the whole file are
\* parsed.
parse_proto_file_anywhere(content) ==
    IF EnumMatches(content) = {} THEN ParseLines(StrSplit(content, "\n"), <<>>, <<>>)
    ELSE ParseLines(StrSplit(EnumBody(content), "\n"), <<>>, <<>>)

\* parse_proto_file's return value for a file with this content
parse_proto_file(content) ==
    IF EnumMatches(content) = {} THEN <<>>
    ELSE ParseLines(StrSplit(EnumBody(content), "\n"), <<>>, <<>>)

-----------------------------------------------------------------------------
(* The Swift parsers: parse_swift_status_codes, parse_swift_comments *)

\* init_pattern r'case\s+(\d+):\s*self\s*=\s*\.(\w+)' tried at position i,
\* where "case" stands: group 1 and group 2, or matched = FALSE
InitCaseAt(content, i) ==
    LET a == SkipChars(content, i + Len("case"), Whitespace)
        b == SkipChars(content, a, DigitSet)
        c == SkipChars(content, b + 1, Whitespace)
        d == SkipChars(content, c + Len("self"), Whitespace)
        e == SkipChars(content, d + 1, Whitespace)
        f == SkipChars(content, e + 1, WordChars)
    IN  IF /\ a > i + Len("case")
           /\ b > a
           /\ LitAt(content, b, ":")
           /\ LitAt(content, c, "self")
           /\ LitAt(content, d, "=")
           /\ LitAt(content, e, ".")
           /\ f > e + 1
        THEN [matched |-> TRUE, code |-> ParseInt(SubSeq(content, a, b - 1)),
              name |-> SubSeq(content, e + 1, f - 1)]
        ELSE [matched |-> FALSE, code |-> 0, name |-> ""]

\* parse_swift_status_codes: code -> name over every match of init_pattern,
\* a later match of a number overwriting an earlier one
parse_swift_status_codes(content) ==
    LET hits == {i \in Occurrences(content, "case") : InitCaseAt(content, i).matched}
        last(code) == CHOOSE i \in hits :
                          /\ InitCaseAt(content, i).code = code
                          /\ \A j \in hits : InitCaseAt(content, j).code = code => j <= i
    IN  [code \in {InitCaseAt(content, i).code : i \in hits} |->
            InitCaseAt(content, last(code)).name]

\* case_pattern r'^\s*case\s+(\w+)\s*//\s*=\s*(\d+)' matched against a line
MatchCaseLine(line) ==
    LET a == SkipChars(line, 1, Whitespace)
        b == SkipChars(line, a + Len("case"), Whitespace)
        c == SkipChars(line, b, WordChars)
        d == SkipChars(line, c, Whitespace)
        e == SkipChars(line, d + Len("//"), Whitespace)
        f == SkipChars(line, e + 1, Whitespace)
        g == SkipChars(line, f, DigitSet)
    IN  IF /\ LitAt(line, a, "case")
           /\ b > a + Len("case")
           /\ c > b
           /\ LitAt(line, d, "//")
           /\ LitAt(line, e, "=")
           /\ g > f
        THEN [matched |-> TRUE, swift_name |-> SubSeq(line, b, c - 1),
              code |-> ParseInt(SubSeq(line, f, g - 1))]
        ELSE [matched |-> FALSE, swift_name |-> "", code |-> 0]

\* f.readlines(), each line without its terminator (strip() and the
\* patterns never look at it)
ReadLines(content) ==
    LET pieces == StrSplit(content, "\n")
    IN  IF pieces[Len(pieces)] = "" THEN SubSeq(pieces, 1, Len(pieces) - 1) ELSE pieces

RECURSIVE CommentStart(_, _)
\* The backwards walk of lines 214-226 from the line at 1-based position j:
\* the 1-based position of the first '///' line of the contiguous run
\* that ends at j, or j + 1 when line j is no '///' line
CommentStart(lines, j) ==
    IF j >= 1 /\ StartsWith(StrStrip(lines[j]), "///")
    THEN CommentStart(lines, j - 1)
    ELSE j + 1

\* The SwiftStatusCode built for the case line at 1-based position i
\* (line_start and line_end are the 0-based indices the script records)
SwiftStatusCodeAt(lines, i) ==
    LET m == MatchCaseLine(lines[i])
        first == CommentStart(lines, i - 1)
        comment_lines == [k \in 1..(i - first) |->
                             StrStrip(SubSeq(StrStrip(lines[first + k - 1]), 4,
                                             Len(StrStrip(lines[first + k - 1]))))]
        full_comment == StrJoin(comment_lines, " ")
        deprecated == StartsWith(full_comment, "[Deprecated]")
    IN  [swift_name |-> m.swift_name,
         code |-> m.code,
         comment |-> IF deprecated
                     THEN StrStrip(SubSeq(full_comment, Len("[Deprecated]") + 1,
                                          Len(full_comment)))
                     ELSE full_comment,
         deprecated |-> deprecated,
         line_start |-> first - 1,
         line_end |-> i - 1]

\* parse_swift_comments: code -> SwiftStatusCode over every case line, a
\* later declaration of a number overwriting an earlier one
parse_swift_comments(content) ==
    LET lines == ReadLines(content)
        hits == {i \in 1..Len(lines) : MatchCaseLine(lines[i]).matched}
        last(code) == CHOOSE i \in hits :
                          /\ MatchCaseLine(lines[i]).code = code
                          /\ \A j \in hits : MatchCaseLine(lines[j]).code = code => j <= i
    IN  [code \in {MatchCaseLine(lines[i]).code : i \in hits} |->
            SwiftStatusCodeAt(lines, last(code))]

-----------------------------------------------------------------------------
(* The code generator: generate_* *)

RECURSIVE FormatInt(_)
\* str(n) for n >= 0
FormatInt(n) ==
    IF n < 10 THEN Char(Digits, n + 1)
    ELSE FormatInt(n \div 10) \o Char(Digits, (n % 10) + 1)

\* The doc comment line both generate_case_declaration (lines 297-301) and
\* _apply_comment_updates (lines 410-418) render, "" when there is none
DocCommentLine(status) ==
    IF status.comment # ""
    THEN IF status.deprecated THEN "    /// [Deprecated] " \o status.comment
         ELSE "    /// " \o status.comment
    ELSE IF status.deprecated THEN "    /// [Deprecated]"
    ELSE ""

generate_case_declaration(status) ==
    LET case_line == "    case " \o proto_to_swift_case(status.name) \o "  // = "
                        \o FormatInt(status.code)
    IN  IF DocCommentLine(status) # "" THEN DocCommentLine(status) \o "\n" \o case_line
        ELSE case_line

generate_init_case(status) ==
    "        case " \o FormatInt(status.code) \o ": self = ."
        \o proto_to_swift_case(status.name)

generate_raw_value_case(status) ==
    "        case ." \o proto_to_swift_case(status.name) \o ": return "
        \o FormatInt(status.code)

generate_all_cases_entry(status) ==
    "        ." \o proto_to_swift_case(status.name) \o ","

generate_name_map_entry(status) ==
    "            " \o FormatInt(status.code) \o ": \"" \o status.name \o "\","

-----------------------------------------------------------------------------
(* The diff engine: find_comment_updates, find_missing_codes *)

\* The mutant: a pair is emitted only when both fields differ.
NeedsUpdateBothDiffer(proto_code, swift_code) ==
    /\ StrStrip(proto_code.comment) # StrStrip(swift_code.comment)
    /\ proto_code.deprecated # swift_code.deprecated

\* lines 266-272: comment_differs or deprecated_differs
NeedsUpdate(proto_code, swift_code) ==
    \/ StrStrip(proto_code.comment) # StrStrip(swift_code.comment)
    \/ proto_code.deprecated # swift_code.deprecated

RECURSIVE find_comment_updates(_, _)
\* the loop of lines 259-281 over proto_codes, in order
find_comment_updates(pcs, comments) ==
    IF pcs = <<>> THEN <<>>
    ELSE LET proto_code == Head(pcs)
             rest == find_comment_updates(Tail(pcs), comments)
         IN  IF proto_code.code \notin DOMAIN comments THEN rest
             ELSE IF NeedsUpdate(proto_code, comments[proto_code.code])
             THEN <<(<<proto_code, comments[proto_code.code]>>)>> \o rest
             ELSE rest

\* One step of a stable insertion sort by key x.code: x goes after every
\* element whose code is not greater.
InsertByCode(sorted, x) ==
    LET k == Cardinality({i \in 1..Len(sorted) : sorted[i].code <= x.code})
    IN  SubSeq(sorted, 1, k) \o <<x>> \o SubSeq(sorted, k + 1, Len(sorted))

RECURSIVE SortedByCode(_)
\* sorted(s, key=lambda x: x.code): ascending and stable
SortedByCode(s) ==
    IF s = <<>> THEN <<>>
    ELSE InsertByCode(SortedByCode(SubSeq(s, 1, Len(s) - 1)), s[Len(s)])

\* The mutant: the missing codes are returned in proto order, unsorted.
find_missing_codes_unsorted(pcs, existing) ==
    SelectSeq(pcs, LAMBDA p : p.code \notin DOMAIN existing)

find_missing_codes(pcs, existing) ==
    SortedByCode(SelectSeq(pcs, LAMBDA p : p.code \notin DOMAIN existing))

-----------------------------------------------------------------------------
(* The splicer: _insert_before_marker, _insert_before_pattern,             *)
(* _apply_swift_updates, _apply_comment_updates                            *)

\* The five anchors.  The two regular expressions of lines 378 and 389
\* consist of escaped literals only; each matches exactly this text.
CaseMarker ==
    "    /// swift-format-ignore: AlwaysUseLowerCamelCase\n    case unrecognized(Int32)"

InitMarker == "        default: self = .unrecognized(rawValue)"

RawValueMarker == "        case .unrecognized(let i): return i"

AllCasesPattern == "    ]\n}\n\n// minimal edit from proto-generated file:"

NameMapPattern == "        ]\n}\n\nextension Status: Sendable"

\* The mutant: the new text replaces the marker instead of preceding it.
_insert_before_marker_dropping(content, marker, new_content) ==
    LET pieces == StrSplit(content, marker)
    IN  [content |-> StrJoin(pieces, new_content \o "\n"), warned |-> Len(pieces) = 1]

\* The returned content, and whether the warning of line 331 was printed.
\* content.replace(marker, x) is content split at marker and joined by x;
\* one piece means marker is not in content.
_insert_before_marker(content, marker, new_content) ==
    LET pieces == StrSplit(content, marker)
    IN  [content |-> StrJoin(pieces, new_content \o "\n" \o marker),
         warned |-> Len(pieces) = 1]

\* The returned content, and whether the warning of line 343 was printed.
\* pattern is the one text the regular expression matches, so
\* match.group(0) is that text wherever re.search finds it.
_insert_before_pattern(content, pattern, new_content, replacement_suffix) ==
    LET pieces == StrSplit(content, pattern)
    IN  [content |-> StrJoin(pieces, new_content \o replacement_suffix),
         warned |-> Len(pieces) = 1]

\* The five steps of _apply_swift_updates: element k is what step k
\* returned (content and warning).
SwiftUpdateSteps(content, missing_codes) ==
    LET \* sep.join(generate(c) for c in missing_codes)
        JoinGenerated(cs, Generate(_), sep) ==
            StrJoin([i \in 1..Len(cs) |-> Generate(cs[i])], sep)
        r1 == _insert_before_marker(content, CaseMarker,
                  JoinGenerated(missing_codes, generate_case_declaration, "\n\n") \o "\n")
        r2 == _insert_before_marker(r1.content, InitMarker,
                  JoinGenerated(missing_codes, generate_init_case, "\n"))
        r3 == _insert_before_marker(r2.content, RawValueMarker,
                  JoinGenerated(missing_codes, generate_raw_value_case, "\n"))
        r4 == _insert_before_pattern(r3.content, AllCasesPattern,
                  JoinGenerated(missing_codes, generate_all_cases_entry, "\n"),
                  "\n" \o AllCasesPattern)
        r5 == _insert_before_pattern(r4.content, NameMapPattern,
                  JoinGenerated(missing_codes, generate_name_map_entry, "\n"),
                  "\n" \o NameMapPattern)
    IN  <<r1, r2, r3, r4, r5>>

SectionNames == <<"case declarations", "init cases", "rawValue cases",
                  "allCases entries", "nameMap entries">>

\* The returned content, and the sections for which the warning
\* "Could not find insertion point for ..." was printed, in order.
_apply_swift_updates(content, missing_codes) ==
    LET steps == SwiftUpdateSteps(content, missing_codes)
    IN  [content |-> steps[5].content,
         warnings |-> SelectSeq(SectionNames,
                          LAMBDA n : \E k \in 1..5 : SectionNames[k] = n /\ steps[k].warned)]

\* One step of a stable sort by line_start, descending: x goes after
\* every pair whose line_start is not smaller.
\* The mutant: the updates are put in ascending order of line_start.
InsertByLineStartAsc(sorted, x) ==
    LET k == Cardinality({i \in 1..Len(sorted) :
                             sorted[i][2].line_start <= x[2].line_start})
    IN  SubSeq(sorted, 1, k) \o <<x>> \o SubSeq(sorted, k + 1, Len(sorted))

\* One step of the stable sort of line 404: x goes behind every element
\* whose line_start is not smaller.
InsertByLineStartDesc(sorted, x) ==
    LET k == Cardinality({i \in 1..Len(sorted) :
                             sorted[i][2].line_start >= x[2].line_start})
    IN  SubSeq(sorted, 1, k) \o <<x>> \o SubSeq(sorted, k + 1, Len(sorted))

RECURSIVE SortedByLineStartDesc(_)
\* sorted(updates, key=lambda x: x[1].line_start, reverse=True)
SortedByLineStartDesc(updates) ==
    IF updates = <<>> THEN <<>>
    ELSE InsertByLineStartDesc(SortedByLineStartDesc(SubSeq(updates, 1, Len(updates) - 1)),
                               updates[Len(updates)])

Min(a, b) == IF a <= b THEN a ELSE b

\* del lines[first:last] for 0-based first < last (a slice clamps)
DeleteSlice(lines, first, last) ==
    SubSeq(lines, 1, Min(first, Len(lines)))
        \o SubSeq(lines, Min(last, Len(lines)) + 1, Len(lines))

\* lines.insert(index, x) for a 0-based index >= 0 (past the end appends)
InsertLine(lines, index, x) ==
    SubSeq(lines, 1, Min(index, Len(lines))) \o <<x>>
        \o SubSeq(lines, Min(index, Len(lines)) + 1, Len(lines))

\* lines 410-418: the new comment line, "" standing for None
NewCommentLine(proto_code) ==
    IF proto_code.comment # ""
    THEN IF proto_code.deprecated THEN "    /// [Deprecated] " \o proto_code.comment
         ELSE "    /// " \o proto_code.comment
    ELSE IF proto_code.deprecated THEN "    /// [Deprecated]"
    ELSE ""

\* The body of the loop of lines 406-431 for one update
ApplyCommentUpdate(lines, proto_code, swift_code) ==
    LET has_old == swift_code.line_start < swift_code.line_end
        removed == IF has_old
                   THEN DeleteSlice(lines, swift_code.line_start, swift_code.line_end)
                   ELSE lines
        case_line_idx == IF has_old THEN swift_code.line_start ELSE swift_code.line_end
    IN  IF NewCommentLine(proto_code) # ""
        THEN InsertLine(removed, case_line_idx, NewCommentLine(proto_code))
        ELSE removed

RECURSIVE ApplyCommentUpdatesInOrder(_, _)
ApplyCommentUpdatesInOrder(lines, sorted_updates) ==
    IF sorted_updates = <<>> THEN lines
    ELSE ApplyCommentUpdatesInOrder(
             ApplyCommentUpdate(lines, sorted_updates[1][1], sorted_updates[1][2]),
             Tail(sorted_updates))

_apply_comment_updates(content, updates) ==
    StrJoin(ApplyCommentUpdatesInOrder(StrSplit(content, "\n"),
                                       SortedByLineStartDesc(updates)), "\n")

-----------------------------------------------------------------------------
(* The two input files of a run *)

\* What stands in the place of an anchor that is absent: the same
\* construct, reformatted so that the anchor text no longer occurs.
ReformattedAnchor ==
    <<"    case unrecognized(Int32)",
      "        default:\n            self = .unrecognized(rawValue)",
      "        case .unrecognized(let value): return value",
      "    ]\n}\n\n// edited from the proto-generated file:",
      "        ]\n}\n\nextension Status: @unchecked Sendable">>

Anchors == <<CaseMarker, InitMarker, RawValueMarker, AllCasesPattern, NameMapPattern>>

\* The text before each anchor of Status.swift, and the text after the last.
SwiftSections ==
    <<"public enum Status: Equatable {\n    /// ok text\n    case ok  // = 0\n\n"
        \o "    /// old\n    /// text\n    case invalidTransaction  // = 1\n\n",
      "\n\n    public init(rawValue: Int32) {\n        switch rawValue {\n"
        \o "        case 0: self = .ok\n        case 1: self = .invalidTransaction\n",
      "\n        }\n    }\n\n    public var rawValue: Int32 {\n        switch self {\n"
        \o "        case .ok: return 0\n        case .invalidTransaction: return 1\n",
      "\n        }\n    }\n}\n\nextension Status: CaseIterable {\n"
        \o "    public static let allCases: [Status] = [\n        .ok,\n"
        \o "        .invalidTransaction,\n",
      "\nextension Status {\n    static let nameMap: [Int32: String] = [\n"
        \o "            0: \"OK\",\n            1: \"INVALID_TRANSACTION\",\n",
      " {}\n">>

\* Status.swift with the anchors in reformatted absent, the others verbatim.
SwiftFileOf(reformatted) ==
    LET anchor(k) == IF k \in reformatted THEN ReformattedAnchor[k] ELSE Anchors[k]
    IN  SwiftSections[1] \o anchor(1) \o SwiftSections[2] \o anchor(2)
            \o SwiftSections[3] \o anchor(3) \o SwiftSections[4] \o anchor(4)
            \o SwiftSections[5] \o anchor(5) \o SwiftSections[6]

\* The enum entries response_code.proto is assembled from, in file order.
ProtoEntries ==
    <<"  OK = 0;\n",
      "\n  /**\n   * old text\n   */\n  INVALID_TRANSACTION = 1;\n",
      "\n  // new text\n  INVALID_TRANSACTION = 1 [deprecated = true];\n",
      "\n  /**\n   * [Deprecated] fee too low\n   */\n  INSUFFICIENT_TX_FEE = 3;\n",
      "\n  INVALID_FILE_ID = 2 [deprecated = true]; // bad file id\n">>

RECURSIVE ConcatChosen(_, _)
\* The entries whose index is in chosen, concatenated in file order.
ConcatChosen(k, chosen) ==
    IF k > Len(ProtoEntries) THEN ""
    ELSE (IF k \in chosen THEN ProtoEntries[k] ELSE "") \o ConcatChosen(k + 1, chosen)

\* response_code.proto with the chosen entries in its ResponseCodeEnum
ProtoFileWith(chosen) ==
    "syntax = \"proto3\";\n\nenum ResponseCodeEnum {\n" \o ConcatChosen(1, chosen)
        \o "}\n"

-----------------------------------------------------------------------------
(* Specification SpecDiff: the two diff functions on lists and mappings    *)
(* drawn from small sets                                                   *)

DiffCodeNumbers == {1, 2, 3}

DiffNames == <<"INVALID_TRANSACTION", "INVALID_FILE_ID", "INSUFFICIENT_TX_FEE">>

\* Proto entries: the comment already trimmed, as the parser leaves it.
DiffProtoEntries ==
    {[name |-> DiffNames[c], code |-> c, comment |-> m[1], deprecated |-> m[2]] :
        c \in DiffCodeNumbers,
        m \in {<<"old text", FALSE>>, <<"new text", TRUE>>}}

DiffProtoLists == UNION {[1..n -> DiffProtoEntries] : n \in 0..MaxDiffCodes}

DiffSwiftNames == [c \in DiffCodeNumbers |-> proto_to_swift_case(DiffNames[c])]

\* Swift entries: the comment as parse_swift_comments leaves it, which
\* may keep outer spaces.
DiffSwiftEntry(c, m) ==
    [swift_name |-> DiffSwiftNames[c], code |-> c,
     comment |-> m[1], deprecated |-> m[2],
     line_start |-> 10 * c, line_end |-> 10 * c + 1]

DiffSwiftComments ==
    UNION {[present -> {<<"old text", FALSE>>, <<" old text ", FALSE>>,
                        <<"old text", TRUE>>}] :
              present \in SUBSET DiffCodeNumbers}

InitDiff ==
    /\ IdleCall
    /\ IdleCase
    /\ IdleParse
    /\ IdleMain
    /\ proto_codes \in DiffProtoLists
    /\ swift_codes = EmptyDict
    /\ swift_comments = EmptyDict
    /\ missing = <<>>
    /\ comment_updates = <<>>
    /\ diff_pc = "call"

\* find_missing_codes against some code -> name mapping
FindMissing ==
    /\ diff_pc = "call"
    /\ \E present \in SUBSET DiffCodeNumbers :
          swift_codes' = [c \in present |-> DiffSwiftNames[c]]
    /\ missing' = find_missing_codes(proto_codes, swift_codes')
    /\ diff_pc' = "missing"
    /\ UNCHANGED <<proto_codes, swift_comments, comment_updates>>
    /\ UNCHANGED <<caseVars, parseVars, mainVars, callVars>>

\* find_comment_updates against some code -> SwiftStatusCode mapping
FindCommentUpdates ==
    /\ diff_pc = "call"
    /\ \E m \in DiffSwiftComments :
          swift_comments' = [c \in DOMAIN m |-> DiffSwiftEntry(c, m[c])]
    /\ comment_updates' = find_comment_updates(proto_codes, swift_comments')
    /\ diff_pc' = "updates"
    /\ UNCHANGED <<proto_codes, swift_codes, missing>>
    /\ UNCHANGED <<caseVars, parseVars, mainVars, callVars>>

NextDiff == FindMissing \/ FindCommentUpdates

SpecDiff == InitDiff /\ [][NextDiff]_vars

-----------------------------------------------------------------------------
(* Specification SpecParse: parse_proto_file on one proto text, one line   *)
(* of the enum block per step                                              *)

\* The lines proto texts are assembled from.
ProtoLineWords ==
    {"",
     "  /** Block one-liner. */",
     "   * continued text",
     "  // line comment",
     "  FOO = 1; // inline note",
     "  BAR = 2 [deprecated = true];",
     "  QUX = 3; // deprecated, use FOO",
     "  reserved 9;"}

ProtoLineLists == UNION {[1..n -> ProtoLineWords] : n \in 0..MaxProtoLines}

\* A proto file holding the enum block with these lines.
ProtoFileOf(lines) ==
    "syntax = \"proto3\";\n\nenum ResponseCodeEnum {\n"
        \o StrJoin(lines, "\n") \o "\n}\n"

\* A proto file with no ResponseCodeEnum block.
ProtoFileNoEnum == "syntax = \"proto3\";\n\nenum Other {\n  OK = 0;\n}\n"

InitParse ==
    /\ IdleCall
    /\ IdleCase
    /\ IdleDiff
    /\ IdleMain
    /\ proto_text \in {ProtoFileOf(l) : l \in ProtoLineLists} \cup {ProtoFileNoEnum}
    /\ body_lines = <<>>
    /\ current_comment = <<>>
    /\ codes = <<>>
    /\ accepted = <<>>
    /\ parse_error = FALSE
    /\ last_line = "none"
    /\ parse_pc = "start"

\* lines 140-149: read, search for the enum block, split it into lines
FindEnum ==
    /\ parse_pc = "start"
    /\ IF EnumMatches(proto_text) = {}
       THEN /\ parse_error' = TRUE
            /\ parse_pc' = "done"
            /\ UNCHANGED body_lines
       ELSE /\ body_lines' = StrSplit(EnumBody(proto_text), "\n")
            /\ parse_pc' = "loop"
            /\ UNCHANGED parse_error
    /\ UNCHANGED <<proto_text, current_comment, codes, accepted, last_line>>
    /\ UNCHANGED <<caseVars, diffVars, mainVars, callVars>>

\* lines 152-156: a blank line clears the accumulator
BlankLine ==
    /\ parse_pc = "loop" /\ body_lines # <<>>
    /\ StrStrip(Head(body_lines)) = ""
    /\ current_comment' = <<>>
    /\ last_line' = "blank"
    /\ body_lines' = Tail(body_lines)
    /\ UNCHANGED <<proto_text, codes, accepted, parse_error, parse_pc>>
    /\ UNCHANGED <<caseVars, diffVars, mainVars, callVars>>

\* lines 158-159: a comment line feeds the accumulator
CommentLine ==
    /\ parse_pc = "loop" /\ body_lines # <<>>
    /\ LET line == StrStrip(Head(body_lines))
       IN  /\ line # "" /\ IsCommentLine(line)
           /\ current_comment' = CommentAfter(line, current_comment)
    /\ last_line' = "comment"
    /\ body_lines' = Tail(body_lines)
    /\ UNCHANGED <<proto_text, codes, accepted, parse_error, parse_pc>>
    /\ UNCHANGED <<caseVars, diffVars, mainVars, callVars>>

\* lines 161-164: an enum value line emits a code and clears the accumulator
ValueLine ==
    /\ parse_pc = "loop" /\ body_lines # <<>>
    /\ LET line == StrStrip(Head(body_lines))
       IN  /\ line # "" /\ ~IsCommentLine(line)
           /\ MatchEnumValue(line).matched
           /\ codes' = Append(codes, _parse_enum_value(line, current_comment))
           /\ accepted' = Append(accepted, [line |-> line, pending |-> current_comment])
    /\ current_comment' = AccumulatorAfterValue(current_comment)
    /\ last_line' = "value"
    /\ body_lines' = Tail(body_lines)
    /\ UNCHANGED <<proto_text, parse_error, parse_pc>>
    /\ UNCHANGED <<caseVars, diffVars, mainVars, callVars>>

\* lines 161-162: any other line is ignored, the accumulator kept
IgnoredLine ==
    /\ parse_pc = "loop" /\ body_lines # <<>>
    /\ LET line == StrStrip(Head(body_lines))
       IN  /\ line # "" /\ ~IsCommentLine(line)
           /\ ~MatchEnumValue(line).matched
    /\ last_line' = "ignored"
    /\ body_lines' = Tail(body_lines)
    /\ UNCHANGED <<proto_text, current_comment, codes, accepted, parse_error, parse_pc>>
    /\ UNCHANGED <<caseVars, diffVars, mainVars, callVars>>

\* line 169: return codes
ParseReturn ==
    /\ parse_pc = "loop" /\ body_lines = <<>>
    /\ parse_pc' = "done"
    /\ UNCHANGED <<proto_text, body_lines, current_comment, codes, accepted,
                   parse_error, last_line>>
    /\ UNCHANGED <<caseVars, diffVars, mainVars, callVars>>

NextParse ==
    \/ FindEnum
    \/ BlankLine
    \/ CommentLine
    \/ ValueLine
    \/ IgnoredLine
    \/ ParseReturn

SpecParse == InitParse /\ [][NextParse]_vars

-----------------------------------------------------------------------------
(* Specification SpecCase: the converter applied to one identifier *)

\* The words identifiers are assembled from: those of the documented
\* examples, acronyms of the table, and single letters that spell one.
SegmentWords ==
    {"OK", "INVALID", "TRANSACTION", "FILE", "ID", "INSUFFICIENT", "TX", "FEE",
     "NFT", "IPV4", "I", "D"}

SegmentLists == UNION {[1..n -> SegmentWords] : n \in 1..MaxSegments}

InitCase ==
    /\ IdleCall
    /\ IdleParse
    /\ IdleDiff
    /\ IdleMain
    /\ segments \in SegmentLists
    /\ proto_name = StrJoin(segments, "_")
    /\ swift_name = ""
    /\ case_pc = "call"

Convert ==
    /\ case_pc = "call"
    /\ swift_name' = proto_to_swift_case(proto_name)
    /\ case_pc' = "returned"
    /\ UNCHANGED <<segments, proto_name>>
    /\ UNCHANGED <<parseVars, diffVars, mainVars, callVars>>

NextCase == Convert

SpecCase == InitCase /\ [][NextCase]_vars

-----------------------------------------------------------------------------
(* Specification Spec: main(), one invocation after another on the same  *)
(* pair of files, with the file system free to fail any write, copy or   *)
(* removal                                                                *)

\* response_code.proto as the invocations find it.
ProtoFiles ==
    {FileOf(ProtoFileWith(chosen)) : chosen \in SUBSET (1..Len(ProtoEntries))}
        \cup {FileOf(ProtoFileNoEnum), NoFile}

\* The anchors Status.swift may have been reformatted out of.
AbsentChoices == {{}} \cup {{k} : k \in 1..Len(Anchors)}

Init ==
    /\ IdleCall
    /\ IdleCase
    /\ IdleParse
    /\ IdleDiff
    /\ proto_file \in ProtoFiles
    /\ absent \in AbsentChoices
    /\ swift_file \in {FileOf(SwiftFileOf(absent))}
                        \cup (IF absent = {} THEN {NoFile} ELSE {})
    /\ backup_file = NoFile
    /\ dry_run \in BOOLEAN
    /\ pc = "start"
    /\ updated_text = ""
    /\ warnings = <<>>
    /\ success = "none"
    /\ exit_code = -1
    /\ run = 1
    /\ swift_file0 = swift_file
    /\ wrote_before = FALSE
    /\ overwrite_failed = FALSE
    /\ failures = 0
    /\ restored = FALSE

\* lines 510-516: either input file missing is exit status 1
CheckInputs ==
    /\ pc = "start"
    /\ IF ~proto_file.exists \/ ~swift_file.exists
       THEN pc' = "done" /\ exit_code' = 1
       ELSE pc' = "parse" /\ UNCHANGED exit_code
    /\ UNCHANGED <<proto_file, swift_file, backup_file, dry_run, updated_text, warnings,
                   success, run, swift_file0, absent, wrote_before, overwrite_failed,
                   failures, restored>>
    /\ UNCHANGED <<caseVars, parseVars, diffVars, callVars>>

\* lines 518-520: the three parsers
ParseInputs ==
    /\ pc = "parse"
    /\ proto_codes' = parse_proto_file(proto_file.text)
    /\ swift_codes' = parse_swift_status_codes(swift_file.text)
    /\ swift_comments' = parse_swift_comments(swift_file.text)
    /\ parse_error' = (EnumMatches(proto_file.text) = {})
    /\ pc' = "diff"
    /\ UNCHANGED <<missing, comment_updates, diff_pc>>
    /\ UNCHANGED <<proto_file, swift_file, backup_file, dry_run, updated_text, warnings,
                   success, exit_code, run, swift_file0, absent, wrote_before,
                   overwrite_failed,
                   failures, restored>>
    /\ UNCHANGED <<proto_text, body_lines, current_comment, codes, accepted, last_line,
                   parse_pc>>
    /\ UNCHANGED <<caseVars, callVars>>

\* lines 527-530: the two diffs
Diff ==
    /\ pc = "diff"
    /\ missing' = find_missing_codes(proto_codes, swift_codes)
    /\ comment_updates' = find_comment_updates(proto_codes, swift_comments)
    /\ pc' = "diffed"
    /\ UNCHANGED <<proto_codes, swift_codes, swift_comments, diff_pc>>
    /\ UNCHANGED <<proto_file, swift_file, backup_file, dry_run, updated_text, warnings,
                   success, exit_code, run, swift_file0, absent, wrote_before,
                   overwrite_failed,
                   failures, restored>>
    /\ UNCHANGED <<caseVars, parseVars, callVars>>

\* lines 532-553: nothing to do is exit status 0, else update_swift_file
Report ==
    /\ pc = "diffed"
    /\ IF missing = <<>> /\ comment_updates = <<>>
       THEN pc' = "done" /\ exit_code' = 0
       ELSE pc' = "update" /\ UNCHANGED exit_code
    /\ UNCHANGED <<proto_file, swift_file, backup_file, dry_run, updated_text, warnings,
                   success, run, swift_file0, absent, wrote_before, overwrite_failed,
                   failures, restored>>
    /\ UNCHANGED <<caseVars, parseVars, diffVars, callVars>>

\* The mutant: the insertions are made in the first pass.
FirstPassInserts(content, missing_codes, updates) ==
    IF missing_codes # <<>> THEN _apply_swift_updates(content, missing_codes).content
    ELSE content

\* lines 468-470: the first pass over the content read from disk
FirstPass(content, missing_codes, updates) ==
    IF updates # <<>> THEN _apply_comment_updates(content, updates) ELSE content

\* lines 464-470 of update_swift_file: read the file, apply the comment
\* updates
ApplyCommentUpdates ==
    /\ pc = "update"
    /\ IF missing = <<>> /\ comment_updates = <<>>
       THEN /\ success' = "true"
            /\ pc' = "returned"
            /\ UNCHANGED updated_text
       ELSE /\ updated_text' = FirstPass(swift_file.text, missing, comment_updates)
            /\ pc' = "commented"
            /\ UNCHANGED success
    /\ UNCHANGED <<proto_file, swift_file, backup_file, dry_run, warnings,
                   exit_code, run, swift_file0, absent, wrote_before, overwrite_failed,
                   failures, restored>>
    /\ UNCHANGED <<caseVars, parseVars, diffVars, callVars>>

\* lines 473-474: insert the missing codes
ApplySwiftUpdates ==
    /\ pc = "commented"
    /\ IF missing # <<>>
       THEN LET updated == _apply_swift_updates(updated_text, missing)
            IN  updated_text' = updated.content /\ warnings' = updated.warnings
       ELSE UNCHANGED <<updated_text, warnings>>
    /\ pc' = "updated"
    /\ UNCHANGED <<proto_file, swift_file, backup_file, dry_run, success,
                   exit_code, run, swift_file0, absent, wrote_before, overwrite_failed,
                   failures, restored>>
    /\ UNCHANGED <<caseVars, parseVars, diffVars, callVars>>

\* The mutant: the dry-run flag is not consulted.
ReturnsBeforeWriteNever(dry_run_flag) == FALSE

\* line 476: if dry_run
ReturnsBeforeWrite(dry_run_flag) == dry_run_flag

\* lines 476-485: a dry run returns True here, else _write_file_with_backup
DryRunOrWrite ==
    /\ pc = "updated"
    /\ IF ReturnsBeforeWrite(dry_run)
       THEN success' = "true" /\ pc' = "returned"
       ELSE pc' = "backup" /\ UNCHANGED success
    /\ UNCHANGED <<proto_file, swift_file, backup_file, dry_run, updated_text, warnings,
                   exit_code, run, swift_file0, absent, wrote_before, overwrite_failed,
                   failures, restored>>
    /\ UNCHANGED <<caseVars, parseVars, diffVars, callVars>>

\* The mutant: the copy leaves the destination as it was.
copy2_nothing(src_file, dst_file) == dst_file

\* shutil.copy2(src, dst): the destination after a copy that succeeded
copy2(src_file, dst_file) == src_file

\* line 441: the backup is made
BackupCopy ==
    /\ pc = "backup"
    /\ backup_file' = copy2(swift_file, backup_file)
    /\ pc' = "write"
    /\ UNCHANGED <<proto_file, swift_file, dry_run, updated_text, warnings, success,
                   exit_code, run, swift_file0, absent, wrote_before, overwrite_failed,
                   failures, restored>>
    /\ UNCHANGED <<caseVars, parseVars, diffVars, callVars>>

\* line 441 raises, outside the try: the exception ends the process with
\* status 1; the backup is not there or is there empty
BackupCopyFails ==
    /\ pc = "backup"
    /\ backup_file' \in {backup_file, FileOf("")}
    /\ pc' = "done"
    /\ exit_code' = 1
    /\ failures' = failures + 1
    /\ UNCHANGED <<proto_file, swift_file, dry_run, updated_text, warnings, success,
                   run, swift_file0, absent, wrote_before, overwrite_failed, restored>>
    /\ UNCHANGED <<caseVars, parseVars, diffVars, callVars>>

\* The mutant: the write stops halfway and reports nothing.
WrittenFileHalf(text) == FileOf(SubSeq(text, 1, Len(text) \div 2))

\* open(swift_path, 'w') and f.write(content) that succeeded
WrittenFile(text) == FileOf(text)

\* lines 444-445: the file is overwritten
OpenWrite ==
    /\ pc = "write"
    /\ swift_file' = WrittenFile(updated_text)
    /\ pc' = "remove"
    /\ UNCHANGED <<proto_file, backup_file, dry_run, updated_text, warnings, success,
                   exit_code, run, swift_file0, absent, wrote_before, overwrite_failed,
                   failures, restored>>
    /\ UNCHANGED <<caseVars, parseVars, diffVars, callVars>>

\* lines 444-445 raise: open failed and the file is as it was, or the
\* write failed and the file is truncated or holds part of the content
OpenWriteFails ==
    /\ pc = "write"
    /\ swift_file' \in {swift_file, FileOf(""),
                        FileOf(SubSeq(updated_text, 1, Len(updated_text) \div 2))}
    /\ overwrite_failed' = TRUE
    /\ pc' = "restore"
    /\ failures' = failures + 1
    /\ UNCHANGED <<proto_file, backup_file, dry_run, updated_text, warnings, success,
                   exit_code, run, swift_file0, absent, wrote_before, restored>>
    /\ UNCHANGED <<caseVars, parseVars, diffVars, callVars>>

\* The mutant: the file stays.
os_remove_nothing(file) == file

\* os.remove(path) that succeeded
os_remove(file) == NoFile

\* lines 448-451: the backup is removed, True is returned
RemoveBackup ==
    /\ pc = "remove"
    /\ backup_file' = os_remove(backup_file)
    /\ success' = "true"
    /\ pc' = "returned"
    /\ UNCHANGED <<proto_file, swift_file, dry_run, updated_text, warnings,
                   exit_code, run, swift_file0, absent, wrote_before, overwrite_failed,
                   failures, restored>>
    /\ UNCHANGED <<caseVars, parseVars, diffVars, callVars>>

\* line 448 raises inside the try: the handler of line 452 takes over
RemoveBackupFails ==
    /\ pc = "remove"
    /\ pc' = "restore"
    /\ failures' = failures + 1
    /\ UNCHANGED <<proto_file, swift_file, backup_file, dry_run, updated_text, warnings,
                   success, exit_code, run, swift_file0, absent, wrote_before,
                   overwrite_failed, restored>>
    /\ UNCHANGED <<caseVars, parseVars, diffVars, callVars>>

\* line 455: the backup is copied back
Restore ==
    /\ pc = "restore"
    /\ swift_file' = copy2(backup_file, swift_file)
    /\ pc' = "remove_restored"
    /\ UNCHANGED <<proto_file, backup_file, dry_run, updated_text, warnings, success,
                   exit_code, run, swift_file0, absent, wrote_before, overwrite_failed,
                   failures, restored>>
    /\ UNCHANGED <<caseVars, parseVars, diffVars, callVars>>

\* line 455 raises inside the handler: the exception ends the process
\* with status 1
RestoreFails ==
    /\ pc = "restore"
    /\ swift_file' \in {swift_file, FileOf("")}
    /\ pc' = "done"
    /\ exit_code' = 1
    /\ failures' = failures + 1
    /\ UNCHANGED <<proto_file, backup_file, dry_run, updated_text, warnings, success,
                   run, swift_file0, absent, wrote_before, overwrite_failed, restored>>
    /\ UNCHANGED <<caseVars, parseVars, diffVars, callVars>>

\* lines 456-457: the backup is removed, False is returned
RemoveAfterRestore ==
    /\ pc = "remove_restored"
    /\ backup_file' = os_remove(backup_file)
    /\ success' = "false"
    /\ pc' = "returned"
    /\ UNCHANGED <<proto_file, swift_file, dry_run, updated_text, warnings,
                   exit_code, run, swift_file0, absent, wrote_before, overwrite_failed,
                   failures, restored>>
    /\ UNCHANGED <<caseVars, parseVars, diffVars, callVars>>

\* line 456 raises inside the handler: the exception ends the process
\* with status 1
RemoveAfterRestoreFails ==
    /\ pc = "remove_restored"
    /\ pc' = "done"
    /\ exit_code' = 1
    /\ failures' = failures + 1
    /\ UNCHANGED <<proto_file, swift_file, backup_file, dry_run, updated_text, warnings,
                   success, run, swift_file0, absent, wrote_before, overwrite_failed, restored>>
    /\ UNCHANGED <<caseVars, parseVars, diffVars, callVars>>

\* The mutant: the exit status is 0 whatever was returned.
ExitStatusZero(returned) == 0

\* lines 555-566: sys.exit(0) if success, else sys.exit(1)
ExitStatus(returned) == IF returned = "true" THEN 0 ELSE 1

Exit ==
    /\ pc = "returned"
    /\ exit_code' = ExitStatus(success)
    /\ pc' = "done"
    /\ UNCHANGED <<proto_file, swift_file, backup_file, dry_run, updated_text, warnings,
                   success, run, swift_file0, absent, wrote_before, overwrite_failed,
                   failures, restored>>
    /\ UNCHANGED <<caseVars, parseVars, diffVars, callVars>>

\* The next invocation begins, on Status.swift as it is now.
BeginRun ==
    /\ run < MaxRuns
    /\ run' = run + 1
    /\ dry_run' \in BOOLEAN
    /\ pc' = "start"
    /\ updated_text' = ""
    /\ warnings' = <<>>
    /\ success' = "none"
    /\ exit_code' = -1
    /\ swift_file0' = swift_file'
    /\ wrote_before' = (success = "true" /\ ~dry_run)
    /\ overwrite_failed' = FALSE
    /\ failures' = 0
    /\ proto_codes' = <<>>
    /\ swift_codes' = EmptyDict
    /\ swift_comments' = EmptyDict
    /\ missing' = <<>>
    /\ comment_updates' = <<>>
    /\ parse_error' = FALSE
    /\ UNCHANGED <<proto_file, backup_file, diff_pc>>
    /\ UNCHANGED <<proto_text, body_lines, current_comment, codes, accepted, last_line,
                   parse_pc>>
    /\ UNCHANGED <<caseVars, callVars>>

\* The script is invoked again, with or without --dry-run, after an
\* invocation that ended with status 0.
StartRun ==
    /\ pc = "done"
    /\ exit_code = 0
    /\ UNCHANGED <<swift_file, absent, restored>>
    /\ BeginRun

\* Status.swift with its reformatted anchor put back as the script
\* expects it.
AnchorsRestored(text) ==
    LET k == CHOOSE a \in absent : TRUE
    IN  StrReplace(text, ReformattedAnchor[k], Anchors[k])

\* After an invocation that wrote the file, adding the init(rawValue:)
\* branches but skipping the section whose anchor it did not find, the
\* anchor is put back by hand and the script is invoked again.
RestoreAnchorsAndRun ==
    /\ pc = "done"
    /\ exit_code = 0
    /\ success = "true"
    /\ ~dry_run
    /\ warnings # <<>>
    /\ missing # <<>>
    /\ absent # {}
    /\ InitMarker \notin {Anchors[k] : k \in absent}
    /\ swift_file' = FileOf(AnchorsRestored(swift_file.text))
    /\ absent' = {}
    /\ restored' = TRUE
    /\ BeginRun

Next ==
    \/ CheckInputs
    \/ ParseInputs
    \/ Diff
    \/ Report
    \/ ApplyCommentUpdates
    \/ ApplySwiftUpdates
    \/ DryRunOrWrite
    \/ BackupCopy
    \/ BackupCopyFails
    \/ OpenWrite
    \/ OpenWriteFails
    \/ RemoveBackup
    \/ RemoveBackupFails
    \/ Restore
    \/ RestoreFails
    \/ RemoveAfterRestore
    \/ RemoveAfterRestoreFails
    \/ Exit
    \/ StartRun
    \/ RestoreAnchorsAndRun

Spec == Init /\ [][Next]_vars

-----------------------------------------------------------------------------
(* Specification SpecInsert: _insert_before_marker on one text *)

\* The pieces the texts are assembled from: the anchor itself, a line of
\* the switch it closes, a line break.
InsertPieces == {InitMarker, "        case 0: self = .ok", "\n"}

InsertTexts ==
    {StrJoin(pieces, "") : pieces \in UNION {[1..n -> InsertPieces] : n \in 0..MaxPieces}}

\* What is inserted: a generated line, nothing.
InsertedTexts == {"        case 2: self = .invalidFileID", ""}

InitInsert ==
    /\ IdleCase
    /\ IdleParse
    /\ IdleDiff
    /\ IdleMain
    /\ call_args \in [content : InsertTexts, marker : {InitMarker},
                      new_content : InsertedTexts]
    /\ call_result = <<>>
    /\ call_pc = "call"

\* lines 327-332
InsertBeforeMarker ==
    /\ call_pc = "call"
    /\ call_result' = _insert_before_marker(call_args.content, call_args.marker,
                                            call_args.new_content)
    /\ call_pc' = "returned"
    /\ UNCHANGED call_args
    /\ UNCHANGED <<caseVars, parseVars, diffVars, mainVars>>

NextInsert == InsertBeforeMarker

SpecInsert == InitInsert /\ [][NextInsert]_vars

-----------------------------------------------------------------------------
(* Specification SpecComments: _apply_comment_updates on one text and one *)
(* update list that find_comment_updates produced for it                  *)

DeclNames == <<"ok", "invalidTransaction", "invalidFileID", "insufficientTxFee">>

\* The declaration of number d, as Status.swift may hold it: no doc comment,
\* one line, two lines followed by an empty line, a [Deprecated] line.
DeclBlocks(d) ==
    LET case_line == "    case " \o DeclNames[d] \o "  // = " \o FormatInt(d) \o "\n"
    IN  {case_line,
         "    /// old\n" \o case_line,
         "    /// old\n    /// text\n" \o case_line \o "\n",
         "    /// [Deprecated] old\n" \o case_line \o "\n"}

RECURSIVE DeclTexts(_)
\* The texts with the declarations of numbers 1..n, in this order.
DeclTexts(n) ==
    IF n = 0 THEN {""}
    ELSE {t \o b : t \in DeclTexts(n - 1), b \in DeclBlocks(n)}

CommentTexts ==
    {"public enum Status {\n" \o t \o "}\n" : t \in UNION {DeclTexts(n) : n \in 0..MaxDecls}}

\* Proto entries for the numbers 1..MaxDecls, as parse_proto_file leaves them.
CommentProtoEntries ==
    {[name |-> "X", code |-> c, comment |-> v[1], deprecated |-> v[2]] :
        c \in 1..MaxDecls,
        v \in {<<"", FALSE>>, <<"new text", FALSE>>, <<"old", TRUE>>, <<"", TRUE>>}}

\* Proto lists of at most two entries; the two may share a number.
CommentProtoLists == UNION {[1..n -> CommentProtoEntries] : n \in 0..2}

InitComments ==
    /\ IdleCase
    /\ IdleParse
    /\ IdleDiff
    /\ IdleMain
    /\ call_args \in
          {[content |-> t,
            updates |-> find_comment_updates(pl, parse_swift_comments(t))] :
              t \in CommentTexts, pl \in CommentProtoLists}
    /\ call_result = <<>>
    /\ call_pc = "call"

\* lines 398-433
ApplyUpdatesToText ==
    /\ call_pc = "call"
    /\ call_result' = [content |-> _apply_comment_updates(call_args.content,
                                                          call_args.updates)]
    /\ call_pc' = "returned"
    /\ UNCHANGED call_args
    /\ UNCHANGED <<caseVars, parseVars, diffVars, mainVars>>

NextComments == ApplyUpdatesToText

SpecComments == InitComments /\ [][NextComments]_vars

-----------------------------------------------------------------------------
(* Claims about proto_to_swift_case (SpecCase) *)

\* Where segment i starts in the converted identifier, the '_' removed.
SegmentOffset(i) ==
    LET RECURSIVE Sum(_)
        Sum(k) == IF k = 0 THEN 0 ELSE Len(segments[k]) + Sum(k - 1)
    IN  Sum(i - 1)

\* The piece of the converted identifier that segment i produced.
SegmentPiece(i) ==
    SubSeq(swift_name, SegmentOffset(i) + 1, SegmentOffset(i) + Len(segments[i]))

AllLower(s) == \A k \in 1..Len(s) : Char(s, k) \notin UpperSet

\* C6: proto_to_swift_case maps OK to ok; otherwise the result is the
\* segments between '_' concatenated without separator, the first
\* lower-cased, each later one spelled as the acronym table says or else
\* with its first character upper-cased and the rest lower-cased; the
\* four documented examples convert as documented.
C6_CaseConversion ==
    case_pc = "returned" =>
        /\ proto_name = "OK" => swift_name = "ok"
        /\ proto_name = "INVALID_TRANSACTION" => swift_name = "invalidTransaction"
        /\ proto_name = "INVALID_FILE_ID" => swift_name = "invalidFileID"
        /\ proto_name = "INSUFFICIENT_TX_FEE" => swift_name = "insufficientTxFee"
        /\ proto_name # "OK" =>
            /\ Len(swift_name) = SegmentOffset(Len(segments) + 1)
            /\ StrLower(SegmentPiece(1)) = StrLower(segments[1])
            /\ AllLower(SegmentPiece(1))
            /\ \A i \in 2..Len(segments) :
                  IF segments[i] \in DOMAIN ACRONYM_MAPPINGS
                  THEN SegmentPiece(i) = ACRONYM_MAPPINGS[segments[i]]
                  ELSE /\ StrLower(SegmentPiece(i)) = StrLower(segments[i])
                       /\ Char(SegmentPiece(i), 1) \notin LowerSet
                       /\ AllLower(SubSeq(SegmentPiece(i), 2, Len(segments[i])))

C6_Witness ==
    /\ case_pc = "returned"
    /\ proto_name = "INVALID_FILE_ID"
    /\ swift_name = "invalidFileID"

\* C20: proto_to_swift_case is injective on the identifiers: no other
\* identifier assembled from upper-case segments converts to what the
\* identifier at hand converted to.
C20_ConversionInjective ==
    case_pc = "returned" =>
        \A other \in SegmentLists :
            StrJoin(other, "_") # proto_name =>
                proto_to_swift_case(StrJoin(other, "_")) # swift_name

-----------------------------------------------------------------------------
(* Claims about the proto parser (SpecParse) *)

\* C7: an enum value line reached with two or more comment lines pending
\* (no blank line since) and carrying an inline comment gets the pending
\* comment lines joined by single spaces, then a space, then the inline
\* comment; and right after any value line the accumulator is empty.
C7_CommentAssembly ==
    /\ \A i \in 1..Len(codes) :
          LET pending == accepted[i].pending
              inline == MatchEnumValue(accepted[i].line).inline
          IN  (/\ Len(pending) >= 2
               /\ \A k \in 1..Len(pending) : pending[k] # ""
               /\ inline # "")
              => codes[i].comment = StrJoin(pending, " ") \o " " \o inline
    /\ (/\ parse_pc = "done"
        /\ proto_text = ProtoFileOf(<<"  // line comment", "   * continued text",
                                      "  FOO = 1; // inline note">>))
       => codes[1].comment = "line comment continued text inline note"
    /\ last_line = "value" => current_comment = <<>>

C7_Witness ==
    /\ parse_pc = "done"
    /\ Len(codes) >= 2
    /\ Len(accepted[1].pending) >= 2
    /\ MatchEnumValue(accepted[1].line).inline # ""
    /\ accepted[2].pending = <<>>

\* C9: for every accepted enum value line the deprecated flag is true
\* exactly when the line carries the [deprecated = true] annotation.
C9_DeprecatedIffAnnotated ==
    \A i \in 1..Len(codes) :
        codes[i].deprecated = MatchEnumValue(accepted[i].line).annotated

-----------------------------------------------------------------------------
(* Claims about the diff engine (SpecDiff) *)

\* How many entries of list s equal x.
CountOf(s, x) == Cardinality({i \in 1..Len(s) : s[i] = x})

\* C5: find_missing_codes returns exactly the proto codes whose number is
\* not a key of the mapping (each as often as the proto list holds it),
\* ordered ascending by number; proto 1,2,3 against existing {2} gives the
\* codes 1 then 3.
C5_MissingExactAndAscending ==
    diff_pc = "missing" =>
        /\ \A x \in DiffProtoEntries :
              CountOf(missing, x) =
                  IF x.code \in DOMAIN swift_codes THEN 0 ELSE CountOf(proto_codes, x)
        /\ \A i, j \in 1..Len(missing) : i < j => missing[i].code <= missing[j].code
        /\ (/\ [i \in 1..Len(proto_codes) |-> proto_codes[i].code] = <<1, 2, 3>>
            /\ DOMAIN swift_codes = {2})
           => [i \in 1..Len(missing) |-> missing[i].code] = <<1, 3>>

C5_Witness ==
    /\ diff_pc = "missing"
    /\ [i \in 1..Len(proto_codes) |-> proto_codes[i].code] = <<3, 1, 2>>
    /\ DOMAIN swift_codes = {2}
    /\ [i \in 1..Len(missing) |-> missing[i].code] = <<1, 3>>

\* The positions of the proto list that call for a comment update.
DriftedPositions ==
    {i \in 1..Len(proto_codes) :
        /\ proto_codes[i].code \in DOMAIN swift_comments
        /\ LET sc == swift_comments[proto_codes[i].code]
           IN  \/ StrStrip(proto_codes[i].comment) # StrStrip(sc.comment)
               \/ proto_codes[i].deprecated # sc.deprecated}

\* C10: find_comment_updates emits a (proto code, Swift entry) pair exactly
\* for the proto codes whose number is in the Swift comment map and whose
\* trimmed comment or deprecated flag differs from the Swift entry's, in
\* proto-parse order; other codes produce no pair.
C10_CommentUpdatesExact ==
    diff_pc = "updates" =>
        /\ Len(comment_updates) = Cardinality(DriftedPositions)
        /\ \A i \in DriftedPositions :
              comment_updates[Cardinality({j \in DriftedPositions : j <= i})]
                  = <<proto_codes[i], swift_comments[proto_codes[i].code]>>

C10_Witness ==
    /\ diff_pc = "updates"
    /\ Len(proto_codes) = 3
    /\ Len(comment_updates) = 1
    /\ comment_updates[1][1] = proto_codes[2]
    /\ proto_codes[1].code \notin DOMAIN swift_comments
    /\ proto_codes[3].code \in DOMAIN swift_comments
    /\ proto_codes[2].comment = swift_comments[proto_codes[2].code].comment
    /\ proto_codes[2].deprecated # swift_comments[proto_codes[2].code].deprecated

-----------------------------------------------------------------------------
(* Claims about whole invocations (Spec) *)

\* No two entries of the parsed proto list carry the same number.
UniqueCodes ==
    \A i, j \in 1..Len(proto_codes) :
        proto_codes[i].code = proto_codes[j].code => i = j

\* C1: when the previous invocation wrote Status.swift and returned True,
\* the next invocation on the same two files finds no missing code and no
\* comment/deprecated update.  Stated for a Status.swift that has all
\* five anchors, untouched between the invocations, and a proto enum whose
\* numbers are distinct.
C1_SecondRunInSync ==
    (pc = "diffed" /\ wrote_before /\ absent = {} /\ ~restored /\ UniqueCodes) =>
        (missing = <<>> /\ comment_updates = <<>>)

\* C2: in a dry run neither Status.swift is written nor a backup created,
\* whatever was found missing or drifted: at every point of the invocation
\* Status.swift is what it was at the start and no backup file exists.
C2_DryRunWritesNothing ==
    dry_run => (swift_file = swift_file0 /\ backup_file = NoFile)

C2_Witness ==
    /\ dry_run
    /\ pc = "done"
    /\ exit_code = 0
    /\ missing # <<>>
    /\ comment_updates # <<>>
    /\ updated_text # swift_file.text

\* C3: when the overwrite of Status.swift raised after the backup was
\* made and _write_file_with_backup returned, Status.swift is what it was
\* before the invocation and the value returned is False.
C3_RestoreOnFailure ==
    (overwrite_failed /\ success # "none") =>
        (swift_file = swift_file0 /\ success = "false")

C3_Witness ==
    /\ overwrite_failed
    /\ pc = "returned"
    /\ success = "false"
    /\ swift_file = swift_file0
    /\ backup_file = NoFile
    /\ updated_text # swift_file.text

\* The text that belongs in front of anchor k when these codes are added.
InsertedBefore(k, added) ==
    LET each(Generate(_)) == [i \in 1..Len(added) |-> Generate(added[i])]
    IN  CASE k = 1 -> StrJoin(each(generate_case_declaration), "\n\n") \o "\n\n"
          [] k = 2 -> StrJoin(each(generate_init_case), "\n") \o "\n"
          [] k = 3 -> StrJoin(each(generate_raw_value_case), "\n") \o "\n"
          [] k = 4 -> StrJoin(each(generate_all_cases_entry), "\n") \o "\n"
          [] k = 5 -> StrJoin(each(generate_name_map_entry), "\n") \o "\n"

\* C4: with exactly one of the five anchors absent, _apply_swift_updates
\* returns what it returns for the same text with that anchor present,
\* less the insertion at that anchor; each of the other four anchors is
\* preceded by its generated text; exactly one warning is reported, for
\* the absent anchor's section; and the invocation goes on.
C4_OneAnchorAbsent ==
    (pc = "updated" /\ missing # <<>> /\ Cardinality(absent) = 1) =>
        LET k == CHOOSE a \in absent : TRUE
            before == IF comment_updates # <<>>
                      THEN _apply_comment_updates(swift_file.text, comment_updates)
                      ELSE swift_file.text
            withAll == _apply_swift_updates(
                           StrReplace(before, ReformattedAnchor[k], Anchors[k]), missing)
        IN  /\ warnings = <<SectionNames[k]>>
            /\ withAll.warnings = <<>>
            /\ updated_text = StrReplace(withAll.content,
                                         InsertedBefore(k, missing) \o Anchors[k],
                                         ReformattedAnchor[k])
            /\ \A j \in (1..Len(Anchors)) \ {k} :
                  Cardinality(Occurrences(updated_text,
                      InsertedBefore(j, missing) \o Anchors[j])) = 1

C4_Witness ==
    /\ pc = "updated"
    /\ Len(missing) = 2
    /\ absent = {4}
    /\ warnings = <<"allCases entries">>
    /\ updated_text # swift_file.text

\* C8: the exit status is 1 when either input file is missing; 0 when
\* nothing is missing or drifted; 0 when update_swift_file returned True
\* (a dry run included); 1 when it returned False or the overwrite of
\* Status.swift raised.
C8_ExitCodes ==
    pc = "done" =>
        /\ exit_code \in {0, 1}
        /\ (~proto_file.exists \/ ~swift_file0.exists) => exit_code = 1
        /\ (/\ proto_file.exists
            /\ swift_file0.exists
            /\ missing = <<>>
            /\ comment_updates = <<>>) => exit_code = 0
        /\ success = "true" => exit_code = 0
        /\ (success = "false" \/ overwrite_failed) => exit_code = 1

C8_Witness ==
    /\ pc = "done"
    /\ run = 2
    /\ wrote_before
    /\ overwrite_failed
    /\ success = "false"
    /\ exit_code = 1

\* How often the text holds the text generated for section k.
InsertionsAt(k, text) == Cardinality(Occurrences(text, InsertedBefore(k, missing)))

\* C13: with both missing codes and comment updates, the content after
\* the first pass is the text on disk with the comment updates applied at
\* the recorded line indices and holds no insertion the text on disk did
\* not hold; the content after the second pass is that content with the
\* insertion made at each anchor present.
C13_CommentsBeforeInsertions ==
    (missing # <<>> /\ comment_updates # <<>>) =>
        /\ pc = "commented" =>
              /\ updated_text = _apply_comment_updates(swift_file.text, comment_updates)
              /\ \A k \in 1..Len(Anchors) :
                    InsertionsAt(k, updated_text) = InsertionsAt(k, swift_file.text)
        /\ pc = "updated" =>
              /\ \A k \in (1..Len(Anchors)) \ absent :
                    InsertionsAt(k, updated_text) = InsertionsAt(k, swift_file.text) + 1
              /\ updated_text =
                    _apply_swift_updates(
                        _apply_comment_updates(swift_file.text, comment_updates),
                        missing).content

C13_Witness ==
    /\ pc = "updated"
    /\ Len(missing) = 2
    /\ Len(comment_updates) = 2
    /\ absent = {}
    /\ InsertionsAt(1, updated_text) = 1
    /\ InsertionsAt(1, swift_file.text) = 0

\* C14: the destination differs from what it was only while a complete
\* backup of it exists or after True was returned, so the backup is made
\* before the destination is opened for writing; and whenever
\* _write_file_with_backup has returned, True or False, no backup remains.
C14_BackupBeforeWriteRemovedAfter ==
    /\ (swift_file # swift_file0 /\ success = "none") => backup_file = swift_file0
    /\ pc \in {"write", "remove", "restore", "remove_restored"} =>
          backup_file = swift_file0
    /\ success # "none" => backup_file = NoFile

C14_Witness ==
    /\ pc = "returned"
    /\ success = "true"
    /\ ~dry_run
    /\ swift_file # swift_file0
    /\ swift_file = FileOf(updated_text)
    /\ backup_file = NoFile

\* The 1-based positions of the case declaration lines of a text.
CaseLinePositions(lines) == {i \in 1..Len(lines) : MatchCaseLine(lines[i]).matched}

\* C15: after invocations that each wrote Status.swift and returned True,
\* the proto file being the same and its numbers distinct, no number has
\* two case declarations, and no proto code has two init(rawValue:)
\* branches, rawValue branches, allCases entries or nameMap entries, also
\* when an anchor is absent from Status.swift.
C15_NoDuplicateEntries ==
    (pc = "done" /\ success = "true" /\ ~dry_run /\ ~restored /\ UniqueCodes) =>
        LET lines == StrSplit(swift_file.text, "\n")
        IN  /\ \A i, j \in CaseLinePositions(lines) :
                  MatchCaseLine(lines[i]).code = MatchCaseLine(lines[j]).code => i = j
            /\ \A n \in 1..Len(proto_codes) :
                  /\ Cardinality(Occurrences(swift_file.text,
                         generate_init_case(proto_codes[n]))) <= 1
                  /\ Cardinality(Occurrences(swift_file.text,
                         generate_raw_value_case(proto_codes[n]))) <= 1
                  /\ Cardinality(Occurrences(swift_file.text,
                         generate_all_cases_entry(proto_codes[n]))) <= 1
                  /\ Cardinality(Occurrences(swift_file.text,
                         generate_name_map_entry(proto_codes[n]))) <= 1

\* The proto code has its entry in each of the five sections of the text.
InEverySection(status, text) ==
    /\ Contains(text, "    case " \o proto_to_swift_case(status.name) \o "  // = "
                          \o FormatInt(status.code) \o "\n")
    /\ Contains(text, generate_init_case(status))
    /\ Contains(text, generate_raw_value_case(status))
    /\ Contains(text, generate_all_cases_entry(status))
    /\ Contains(text, generate_name_map_entry(status))

\* C16: after an invocation added a code's init(rawValue:) branch but
\* skipped a section whose anchor was absent, and the anchor was put
\* back, the invocations that follow bring the code into all five
\* sections: an invocation that then finds nothing to do, and so leaves
\* the file to every later invocation as it is, finds every proto code
\* that has an init(rawValue:) branch in every section.
C16_SectionsCompletedAfterRestore ==
    (restored /\ pc = "done" /\ exit_code = 0 /\ missing = <<>> /\ comment_updates = <<>>) =>
        \A n \in 1..Len(proto_codes) :
            proto_codes[n].code \in DOMAIN swift_codes =>
                InEverySection(proto_codes[n], swift_file.text)

\* _write_file_with_backup was called and has returned or raised.
WriteEnded == ~dry_run /\ (success # "none" \/ (pc = "done" /\ failures > 0))

C19_NoEnumBlockIsInSync ==
    (/\ proto_file.exists
     /\ swift_file0.exists
     /\ ~Contains(proto_file.text, "ResponseCodeEnum")
     /\ pc \notin {"start", "parse"}) =>
        /\ parse_error
        /\ proto_codes = <<>>
        /\ missing = <<>>
        /\ comment_updates = <<>>
        /\ pc \in {"diff", "diffed", "done"}
        /\ success = "none"
        /\ swift_file = swift_file0
        /\ backup_file = NoFile
        /\ pc = "done" => exit_code = 0

C19_Witness ==
    /\ proto_file = FileOf(ProtoFileNoEnum)
    /\ swift_file.exists
    /\ ~dry_run
    /\ pc = "done"
    /\ parse_error
    /\ exit_code = 0

-----------------------------------------------------------------------------
(* Claims about _insert_before_marker (SpecInsert) *)

\* C11: for a text that contains the anchor, the returned text is the
\* text with the new text and a line break inserted once, directly before
\* an occurrence of the anchor, every other character as it was; for a
\* text that does not contain the anchor, the returned text is the text.
C11_InsertedOnce ==
    call_pc = "returned" =>
        LET content == call_args.content
            at == Occurrences(content, call_args.marker)
        IN  IF at = {} THEN call_result.content = content
            ELSE \E i \in at :
                    call_result.content =
                        SubSeq(content, 1, i - 1) \o call_args.new_content \o "\n"
                            \o SubSeq(content, i, Len(content))

-----------------------------------------------------------------------------
(* Claims about _apply_comment_updates (SpecComments) *)

\* The updates of the call address pairwise different declarations.
DistinctDeclarations ==
    \A i, j \in 1..Len(call_args.updates) :
        call_args.updates[i][2].line_end = call_args.updates[j][2].line_end => i = j

RECURSIVE ExpectedLines(_, _, _)
\* Read top to bottom from the 0-based line k on: a line inside an updated
\* declaration's doc comment is dropped, an updated declaration's case
\* line is preceded by its new comment line when there is one, every
\* other line stands as it is.
ExpectedLines(lines, updates, k) ==
    IF k >= Len(lines) THEN <<>>
    ELSE LET here == {i \in 1..Len(updates) : updates[i][2].line_end = k}
             inside == {i \in 1..Len(updates) :
                           /\ updates[i][2].line_start <= k
                           /\ k < updates[i][2].line_end}
             fresh == NewCommentLine(updates[CHOOSE i \in here : TRUE][1])
         IN  (IF inside # {} THEN <<>>
              ELSE IF here # {} /\ fresh # "" THEN <<fresh, lines[k + 1]>>
              ELSE <<lines[k + 1]>>)
                 \o ExpectedLines(lines, updates, k + 1)

\* C12: for updates on distinct declarations the returned text is the
\* text with, for each updated declaration, its old doc-comment lines
\* removed and its case line directly preceded by the newly rendered
\* comment line (none when the new comment is empty and the code not
\* deprecated), every other line as it was and where it was relative to
\* the others; processing in descending line_start keeps the recorded
\* indices valid.
C12_CommentsReplacedInPlace ==
    (call_pc = "returned" /\ "updates" \in DOMAIN call_args /\ DistinctDeclarations) =>
        call_result.content =
            StrJoin(ExpectedLines(StrSplit(call_args.content, "\n"),
                                  call_args.updates, 0), "\n")

C12_Witness ==
    /\ call_pc = "returned"
    /\ "updates" \in DOMAIN call_args
    /\ DistinctDeclarations
    /\ Len(call_args.updates) = 2
    /\ call_args.updates[1][2].line_start < call_args.updates[2][2].line_start
    /\ call_args.updates[1][2].line_end - call_args.updates[1][2].line_start = 2
    /\ call_args.updates[1][1].comment = ""
    /\ ~call_args.updates[1][1].deprecated
    /\ call_args.updates[2][1].comment = "new text"
    /\ call_result.content # call_args.content

\* The case declaration lines of a text, top to bottom.
CaseLines(text) ==
    SelectSeq(StrSplit(text, "\n"), LAMBDA line : MatchCaseLine(line).matched)

\* C17: whatever update list find_comment_updates produced, two proto
\* entries of one number paired with the same declaration included, the
\* case declaration lines of the returned text are those of the text
\* handed in, in the same order.
C17_CaseLinesKept ==
    (call_pc = "returned" /\ "updates" \in DOMAIN call_args) =>
        CaseLines(call_result.content) = CaseLines(call_args.content)

=============================================================================
